---- MODULE Spec2Model ----
(***************************************************************************)
(* The DTW example application (example_dtw/src/ofApp.cpp): an event-driven*)
(* shim that records mouse gestures into a labelled training dataset,      *)
(* trains a gesture-recognition pipeline on it and, once trained, predicts *)
(* on every frame.  The state is the fields of ofApp; there is one action  *)
(* per handler (update, draw, and each case of keyPressed).                *)
(***************************************************************************)
EXTENDS Integers, Sequences, FiniteSets, TLC

\* ------------------------------------------------------------------ bounds
MaxLen == 2          \* samples in one recording
MaxExamples == 1     \* recordings taken in one run
MaxLabel == 10       \* highest label ']' is pressed up to
MaxPredicts == 2     \* predictions made in one run

\* ------------------------------------------------------- program constants
FRAME_RATE == 60
NumDimensions == 2

\* The mouse positions update() can grab.
Mouse == {<<0, 0>>, <<1, 2>>}

\* The digit keys of keyPressed.
AllDigits == 0..9

\* The texts keyPressed leaves in infoText.
TextNone == ""
TextTrained == "Pipeline Trained"
TextTrainFailed == "WARNING: Failed to train pipeline"
TextSaved == "Training data saved to file"
TextSaveFailed == "WARNING: Failed to save training data to file"
TextLoaded == "Training data saved to file"
TextLoadFailed == "WARNING: Failed to load training data from file"
TextCleared == "Training data cleared"

\* No file TrainingData.txt on disk.
NoFile == "NoFile"

VARIABLES
    infoText,              \* string infoText
    trainingClassLabel,    \* the active class label
    record,                \* bool record
    timeseries,            \* the buffer of the recording in progress
    trainingData,          \* the training dataset: a sequence of examples
    trainingDataPlot,      \* one plot per recorded example
    file,                  \* the contents of TrainingData.txt
    trained,               \* pipeline.getTrained()
    model,                 \* the dataset the pipeline's model was trained on
    distanceMatrixPlots,   \* the size of distanceMatrixPlots
    predictedClassPlot,    \* the predicted-label plot
    classLikelihoodsPlot,  \* the class-likelihoods plot
    predictCalls,          \* the calls of pipeline.predict so far
    captured               \* the samples update() grabbed since recording started

vars == <<infoText, trainingClassLabel, record, timeseries, trainingData,
          trainingDataPlot, file, trained, model, distanceMatrixPlots,
          predictedClassPlot, classLikelihoodsPlot, predictCalls, captured>>

\* ------------------------------------------------- the library's operations

\* TimeSeriesClassificationData::addSample: the dataset with one more example.
AddSample(data, classLabel, ts) ==
    Append(data, [classLabel |-> classLabel, data |-> ts])

\* GestureRecognitionPipeline::getNumClasses: the class labels trained on.
NumClasses(m) == Cardinality({m[i].classLabel : i \in 1..Len(m)})

\* GestureRecognitionPipeline::train: the results a call can have; training
\* on no examples fails, training on some may succeed or be refused.
TrainOutcomes(data) == IF data = <<>> THEN {FALSE} ELSE BOOLEAN

\* saveDatasetToFile: the results a call can have (the write may fail).
SaveOutcomes == BOOLEAN

\* loadDatasetFromFile: the results a call can have; there is nothing to
\* read without a file, and the read of a file may fail.
LoadOutcomes(f) == IF f = NoFile THEN {FALSE} ELSE BOOLEAN

\* loadDatasetFromFile: the dataset after a call that ended ok or not.
LoadDataset(data, f, ok) == IF ok THEN f ELSE data

\* A plot that was never set up.
NoPlot == [initialized |-> FALSE, numPoints |-> 0, numDimensions |-> 0,
           numUpdates |-> 0]

\* ofxGrtTimeseriesPlot::setup
PlotSetup(numPoints, numDimensions) ==
    [initialized |-> TRUE, numPoints |-> numPoints,
     numDimensions |-> numDimensions, numUpdates |-> 0]

\* ofxGrtTimeseriesPlot::update
PlotUpdate(p) == [p EXCEPT !.numUpdates = @ + 1]

\* The plot of one recorded example: setup( rows, cols, labelName ), setData.
ExamplePlot(classLabel, ts) ==
    [labelName |-> <<"Class: ", classLabel>>,
     numRows |-> Len(ts),
     numCols |-> IF ts = <<>> THEN 0 ELSE NumDimensions,
     data |-> ts]

\* ---------------------------------------------------------------- setup()
Init ==
    /\ infoText = TextNone
    /\ trainingClassLabel = 1
    /\ record = FALSE
    /\ timeseries = <<>>
    /\ trainingData = <<>>
    /\ trainingDataPlot = <<>>
    /\ file = NoFile
    /\ trained = FALSE
    /\ model = <<>>
    /\ distanceMatrixPlots = 0
    /\ predictedClassPlot = NoPlot
    /\ classLikelihoodsPlot = NoPlot
    /\ predictCalls = 0
    /\ captured = <<>>

\* update() with the trained-state check dropped: it predicts on every tick.
Update_NoTrainedCheck ==
    \E sample \in Mouse :
        /\ record => Len(timeseries) < MaxLen
        /\ predictCalls < MaxPredicts
        /\ IF record
              THEN /\ timeseries' = Append(timeseries, sample)
                   /\ captured' = Append(captured, sample)
              ELSE UNCHANGED <<timeseries, captured>>
        /\ predictCalls' = predictCalls + 1
        /\ predictedClassPlot' = PlotUpdate(predictedClassPlot)
        /\ classLikelihoodsPlot' = PlotUpdate(classLikelihoodsPlot)
        /\ UNCHANGED <<infoText, trainingClassLabel, record, trainingData,
                       trainingDataPlot, file, trained, model,
                       distanceMatrixPlots>>

\* update() with the prediction gated on record instead of on the pipeline.
Update_PredictWhileRecording ==
    \E sample \in Mouse :
        /\ record => Len(timeseries) < MaxLen
        /\ record => predictCalls < MaxPredicts
        /\ IF record
              THEN /\ timeseries' = Append(timeseries, sample)
                   /\ captured' = Append(captured, sample)
                   /\ predictCalls' = predictCalls + 1
                   /\ predictedClassPlot' = PlotUpdate(predictedClassPlot)
                   /\ classLikelihoodsPlot' = PlotUpdate(classLikelihoodsPlot)
              ELSE UNCHANGED <<timeseries, captured, predictCalls,
                               predictedClassPlot, classLikelihoodsPlot>>
        /\ UNCHANGED <<infoText, trainingClassLabel, record, trainingData,
                       trainingDataPlot, file, trained, model,
                       distanceMatrixPlots>>

\* update() with the record check dropped: it buffers every sample.
Update_AlwaysPush ==
    \E sample \in Mouse :
        /\ Len(timeseries) < MaxLen
        /\ trained => predictCalls < MaxPredicts
        /\ timeseries' = Append(timeseries, sample)
        /\ captured' = IF record THEN Append(captured, sample) ELSE captured
        /\ IF trained
              THEN /\ predictCalls' = predictCalls + 1
                   /\ predictedClassPlot' = PlotUpdate(predictedClassPlot)
                   /\ classLikelihoodsPlot' = PlotUpdate(classLikelihoodsPlot)
              ELSE UNCHANGED <<predictCalls, predictedClassPlot,
                               classLikelihoodsPlot>>
        /\ UNCHANGED <<infoText, trainingClassLabel, record, trainingData,
                       trainingDataPlot, file, trained, model,
                       distanceMatrixPlots>>

\* --------------------------------------------------------------- update()
Update ==
    \E sample \in Mouse :
        /\ record => Len(timeseries) < MaxLen
        /\ trained => predictCalls < MaxPredicts
        /\ IF record
              THEN /\ timeseries' = Append(timeseries, sample)
                   /\ captured' = Append(captured, sample)
              ELSE UNCHANGED <<timeseries, captured>>
        /\ IF trained
              THEN /\ predictCalls' = predictCalls + 1
                   /\ predictedClassPlot' = PlotUpdate(predictedClassPlot)
                   /\ classLikelihoodsPlot' = PlotUpdate(classLikelihoodsPlot)
              ELSE UNCHANGED <<predictCalls, predictedClassPlot,
                               classLikelihoodsPlot>>
        /\ UNCHANGED <<infoText, trainingClassLabel, record, trainingData,
                       trainingDataPlot, file, trained, model,
                       distanceMatrixPlots>>

\* ----------------------------------------------------------------- draw()
\* Drawing changes nothing but the number of distance-matrix plots, which
\* drawDistanceMatrix keeps at one per class of the trained model.
Draw ==
    /\ distanceMatrixPlots' =
          IF trained /\ distanceMatrixPlots # NumClasses(model)
             THEN NumClasses(model) ELSE distanceMatrixPlots
    /\ UNCHANGED <<infoText, trainingClassLabel, record, timeseries,
                   trainingData, trainingDataPlot, file, trained, model,
                   predictedClassPlot, classLikelihoodsPlot, predictCalls,
                   captured>>

\* The 'r' case without timeseries.clear() after the example is added.
KeyR_NoClear ==
    /\ record \/ Len(trainingDataPlot) < MaxExamples
    /\ infoText' = TextNone
    /\ record' = ~record
    /\ IF ~record'
          THEN /\ trainingData' =
                     AddSample(trainingData, trainingClassLabel, timeseries)
               /\ trainingDataPlot' =
                     Append(trainingDataPlot,
                            ExamplePlot(trainingClassLabel, timeseries))
          ELSE UNCHANGED <<trainingData, trainingDataPlot>>
    /\ timeseries' = timeseries
    /\ captured' = <<>>
    /\ UNCHANGED <<trainingClassLabel, file, trained, model,
                   distanceMatrixPlots, predictedClassPlot,
                   classLikelihoodsPlot, predictCalls>>

\* ----------------------------------------------------- keyPressed( 'r' )
KeyR ==
    /\ record \/ Len(trainingDataPlot) < MaxExamples
    /\ infoText' = TextNone
    /\ record' = ~record
    /\ IF ~record'
          THEN /\ trainingData' =
                     AddSample(trainingData, trainingClassLabel, timeseries)
               /\ trainingDataPlot' =
                     Append(trainingDataPlot,
                            ExamplePlot(trainingClassLabel, timeseries))
               /\ timeseries' = <<>>
          ELSE UNCHANGED <<trainingData, trainingDataPlot, timeseries>>
    /\ captured' = <<>>
    /\ UNCHANGED <<trainingClassLabel, file, trained, model,
                   distanceMatrixPlots, predictedClassPlot,
                   classLikelihoodsPlot, predictCalls>>

\* What the label keys leave alone.
LabelKeyFrame ==
    UNCHANGED <<record, timeseries, trainingData, trainingDataPlot, file,
                trained, model, distanceMatrixPlots, predictedClassPlot,
                classLikelihoodsPlot, predictCalls, captured>>

\* The '[' case with the floor at 0 instead of 1.
KeyBracketOpen_FloorZero ==
    /\ infoText' = TextNone
    /\ trainingClassLabel' =
          IF trainingClassLabel > 0 THEN trainingClassLabel - 1
                                    ELSE trainingClassLabel
    /\ LabelKeyFrame

\* ----------------------------------------------------- keyPressed( '[' )
KeyBracketOpen ==
    /\ infoText' = TextNone
    /\ trainingClassLabel' =
          IF trainingClassLabel > 1 THEN trainingClassLabel - 1
                                    ELSE trainingClassLabel
    /\ LabelKeyFrame

\* ----------------------------------------------------- keyPressed( ']' )
KeyBracketClose ==
    /\ trainingClassLabel < MaxLabel
    /\ infoText' = TextNone
    /\ trainingClassLabel' = trainingClassLabel + 1
    /\ LabelKeyFrame

\* The label each digit case assigns.
DigitLabel(d) ==
    CASE d = 1 -> 1
      [] d = 2 -> 2
      [] d = 3 -> 3
      [] d = 4 -> 4
      [] d = 5 -> 4
      [] d = 6 -> 6
      [] d = 7 -> 7
      [] d = 8 -> 8
      [] d = 9 -> 9
      [] d = 0 -> 0

\* ---------------------------------------------- keyPressed( '0' .. '9' )
KeyDigit(d) ==
    /\ infoText' = TextNone
    /\ trainingClassLabel' = DigitLabel(d)
    /\ LabelKeyFrame

\* The 't' case setting the prediction plots up before it looks at the result
\* of train, and dropping the trained state when training failed.
KeyTResult_SetupFirst(ok) ==
    /\ ok \in TrainOutcomes(trainingData)
    /\ infoText' = IF ok THEN TextTrained ELSE TextTrainFailed
    /\ trained' = ok
    /\ model' = IF ok THEN trainingData ELSE <<>>
    /\ distanceMatrixPlots' = NumClasses(trainingData)
    /\ predictedClassPlot' = PlotSetup(FRAME_RATE * 5, 1)
    /\ classLikelihoodsPlot' =
          PlotSetup(FRAME_RATE * 5, NumClasses(trainingData))
    /\ UNCHANGED <<trainingClassLabel, record, timeseries, trainingData,
                   trainingDataPlot, file, predictCalls, captured>>

\* ----------------------------------------------------- keyPressed( 't' )
\* ok is what pipeline.train( trainingData ) returned.
KeyTResult(ok) ==
    /\ ok \in TrainOutcomes(trainingData)
    /\ IF ok
          THEN /\ infoText' = TextTrained
               /\ trained' = TRUE
               /\ model' = trainingData
               /\ distanceMatrixPlots' = NumClasses(trainingData)
               /\ predictedClassPlot' = PlotSetup(FRAME_RATE * 5, 1)
               /\ classLikelihoodsPlot' =
                     PlotSetup(FRAME_RATE * 5, NumClasses(trainingData))
          ELSE /\ infoText' = TextTrainFailed
               /\ UNCHANGED <<trained, model, distanceMatrixPlots,
                              predictedClassPlot, classLikelihoodsPlot>>
    /\ UNCHANGED <<trainingClassLabel, record, timeseries, trainingData,
                   trainingDataPlot, file, predictCalls, captured>>

KeyT == \E ok \in BOOLEAN : KeyTResult(ok)

\* ----------------------------------------------------- keyPressed( 's' )
KeySResult(ok) ==
    /\ ok \in SaveOutcomes
    /\ IF ok
          THEN /\ infoText' = TextSaved
               /\ file' = trainingData
          ELSE /\ infoText' = TextSaveFailed
               /\ file' = file
    /\ UNCHANGED <<trainingClassLabel, record, timeseries, trainingData,
                   trainingDataPlot, trained, model, distanceMatrixPlots,
                   predictedClassPlot, classLikelihoodsPlot, predictCalls,
                   captured>>

KeyS == \E ok \in BOOLEAN : KeySResult(ok)

\* The 'l' case clearing the dataset when the load failed.
KeyLResult_ClearOnFailure(ok) ==
    /\ ok \in LoadOutcomes(file)
    /\ trainingData' = IF ok THEN LoadDataset(trainingData, file, ok) ELSE <<>>
    /\ infoText' = IF ok THEN TextLoaded ELSE TextLoadFailed
    /\ UNCHANGED <<trainingClassLabel, record, timeseries, trainingDataPlot,
                   file, trained, model, distanceMatrixPlots,
                   predictedClassPlot, classLikelihoodsPlot, predictCalls,
                   captured>>

\* ----------------------------------------------------- keyPressed( 'l' )
KeyLResult(ok) ==
    /\ ok \in LoadOutcomes(file)
    /\ trainingData' = LoadDataset(trainingData, file, ok)
    /\ infoText' = IF ok THEN TextLoaded ELSE TextLoadFailed
    /\ UNCHANGED <<trainingClassLabel, record, timeseries, trainingDataPlot,
                   file, trained, model, distanceMatrixPlots,
                   predictedClassPlot, classLikelihoodsPlot, predictCalls,
                   captured>>

KeyL == \E ok \in BOOLEAN : KeyLResult(ok)

\* The 'c' case clearing the pipeline together with the dataset.
KeyC_ClearsPipeline ==
    /\ trainingData' = <<>>
    /\ infoText' = TextCleared
    /\ trained' = FALSE
    /\ model' = <<>>
    /\ UNCHANGED <<trainingClassLabel, record, timeseries, trainingDataPlot,
                   file, distanceMatrixPlots, predictedClassPlot,
                   classLikelihoodsPlot, predictCalls, captured>>

\* ----------------------------------------------------- keyPressed( 'c' )
KeyC ==
    /\ trainingData' = <<>>
    /\ infoText' = TextCleared
    /\ UNCHANGED <<trainingClassLabel, record, timeseries, trainingDataPlot,
                   file, trained, model, distanceMatrixPlots,
                   predictedClassPlot, classLikelihoodsPlot, predictCalls,
                   captured>>

\* ------------------------------------------- keyPressed( any other key )
KeyOther ==
    /\ infoText' = TextNone
    /\ UNCHANGED <<trainingClassLabel, record, timeseries, trainingData,
                   trainingDataPlot, file, trained, model,
                   distanceMatrixPlots, predictedClassPlot,
                   classLikelihoodsPlot, predictCalls, captured>>

\* ------------------------------------------------------- specification
KeyPressed ==
    \/ KeyR
    \/ KeyBracketOpen
    \/ KeyBracketClose
    \/ \E d \in AllDigits : KeyDigit(d)
    \/ KeyT
    \/ KeyS
    \/ KeyL
    \/ KeyC
    \/ KeyOther

Next ==
    \/ Update
    \/ Draw
    \/ KeyPressed

Spec == Init /\ [][Next]_vars

\* ------------------------------------------------------------ properties

\* C1: on every update() tick, predict is called and predictedClassPlot and
\* classLikelihoodsPlot are each updated exactly once if the pipeline is
\* trained at that tick; on a tick where it is untrained there is no predict
\* call and neither plot changes.  No other step calls predict or updates
\* either plot.
C1_PredictIffTrained ==
    /\ [][Update =>
            IF trained
               THEN /\ predictCalls' = predictCalls + 1
                    /\ predictedClassPlot'.numUpdates =
                          predictedClassPlot.numUpdates + 1
                    /\ classLikelihoodsPlot'.numUpdates =
                          classLikelihoodsPlot.numUpdates + 1
               ELSE UNCHANGED <<predictCalls, predictedClassPlot,
                                classLikelihoodsPlot>>]_vars
    /\ [][(\/ predictCalls' # predictCalls
           \/ predictedClassPlot'.numUpdates > predictedClassPlot.numUpdates
           \/ classLikelihoodsPlot'.numUpdates
                 > classLikelihoodsPlot.numUpdates)
          => trained /\ Update]_vars

\* C1 witness: a trained pipeline has predicted on a tick and both plots
\* have been updated.
C1_Witness ==
    /\ trained
    /\ predictCalls > 0
    /\ predictedClassPlot.numUpdates > 0
    /\ classLikelihoodsPlot.numUpdates > 0

\* C2: the 'r' press that stops recording (record goes true -> false) adds
\* exactly one example to the dataset, made of the current trainingClassLabel
\* and the samples update() grabbed since the 'r' press that started the
\* recording, one per tick in capture order, and empties the buffer.
C2_StopAddsRecording ==
    [][(record /\ ~record') =>
          /\ trainingData' =
                Append(trainingData, [classLabel |-> trainingClassLabel,
                                      data |-> captured])
          /\ timeseries' = <<>>]_vars

\* C2 witness: a stopped recording of two different samples is in the
\* dataset and the buffer is empty.
C2_Witness ==
    /\ ~record
    /\ timeseries = <<>>
    /\ Len(trainingData) = 1
    /\ trainingData[1].data = <<<<1, 2>>, <<0, 0>>>>

\* C3: key d sets trainingClassLabel to d, so no two digit keys leave the
\* same label.
C3_DigitKeysDistinct ==
    [][\A d \in AllDigits :
          KeyDigit(d) =>
             /\ trainingClassLabel' = d
             /\ \A e \in AllDigits \ {d} :
                   trainingClassLabel' # DigitLabel(e)]_vars

\* C4: a 't' press whose training fails sets infoText to the warning and
\* leaves the trained flag, the model, distanceMatrixPlots,
\* predictedClassPlot and classLikelihoodsPlot as they were; training on an
\* empty dataset fails.
C4_FailedTrainKeepsModel ==
    /\ [][KeyTResult(FALSE) =>
            /\ infoText' = TextTrainFailed
            /\ UNCHANGED <<trained, model, distanceMatrixPlots,
                           predictedClassPlot, classLikelihoodsPlot>>]_vars
    /\ [][(KeyT /\ trainingData = <<>>) => infoText' = TextTrainFailed]_vars

\* C4 witness: a trained pipeline that has predicted, right after a 't'
\* press on an empty dataset failed.
C4_Witness ==
    /\ infoText = TextTrainFailed
    /\ trainingData = <<>>
    /\ trained
    /\ predictedClassPlot.numUpdates > 0

\* C5: an 'l' press whose load fails leaves the dataset as it was and sets
\* infoText to the load warning.
C5_FailedLoadKeepsData ==
    [][KeyLResult(FALSE) =>
          /\ trainingData' = trainingData
          /\ infoText' = TextLoadFailed]_vars

\* C5 witness: a failed load with a recorded example still in the dataset.
C5_Witness ==
    /\ infoText = TextLoadFailed
    /\ trainingData # <<>>

\* What C6 says the bracket keys leave alone.
C6_Frame == UNCHANGED <<record, timeseries, trainingData, trained, model>>

C7_PredictOnlyAfterTraining ==
    /\ (~record /\ trainingClassLabel = 1 /\ trainingData = <<>> /\ ~trained)
    /\ [](~trained => predictCalls = 0)
    /\ [][(~trained /\ trained') =>
             KeyTResult(TRUE) /\ infoText' = TextTrained]_vars
    /\ [][predictCalls' # predictCalls => trained]_vars
    /\ [][(Update /\ trained) => predictCalls' = predictCalls + 1]_vars

\* C7 witness: the first prediction, on a tick after a 't' press succeeded
\* with no key pressed in between.
C7_Witness ==
    /\ infoText = TextTrained
    /\ trained
    /\ predictCalls = 1

C9_IdleBufferEmpty ==
    /\ [](~record => timeseries = <<>>)
    /\ [][Len(timeseries') > Len(timeseries) => record /\ Update]_vars
    /\ [][Len(timeseries') < Len(timeseries) => record /\ ~record']_vars

\* C9 witness: a recording with samples was stopped and the buffer is empty.
C9_Witness ==
    /\ ~record
    /\ timeseries = <<>>
    /\ trainingData # <<>>
    /\ Len(trainingData[1].data) = MaxLen

\* C10: trainingDataPlot has one entry per example of the dataset, in the
\* same order.
C10_PlotsMatchDataset ==
    /\ Len(trainingDataPlot) = Len(trainingData)
    /\ \A i \in 1..Len(trainingData) :
          trainingDataPlot[i] =
             ExamplePlot(trainingData[i].classLabel, trainingData[i].data)

====
